---- MODULE Spec2Model ----
(***************************************************************************)
(* Password Generator & Strength Checker (src/script.js).                  *)
(*                                                                         *)
(* A JavaScript string is modelled as a sequence of one-character strings, *)
(* so that indexing, filtering, joining and shuffling are computed as the  *)
(* code computes them.                                                     *)
(***************************************************************************)
EXTENDS Integers, Sequences, FiniteSets, TLC

\* ------------------------------------------------------------------------
\* Bounds of the model
\* ------------------------------------------------------------------------

\* largest value of the length slider explored by SpecCreate
MaxLength == 4

\* ------------------------------------------------------------------------
\* Generic helpers standing for JavaScript built-ins
\* ------------------------------------------------------------------------

\* String.prototype.includes / Array.prototype.includes for one element
includes(seq, x) == \E i \in 1..Len(seq) : seq[i] = x

Range(seq) == {seq[i] : i \in 1..Len(seq)}

Max(a, b) == IF a >= b THEN a ELSE b

Min(a, b) == IF a <= b THEN a ELSE b

\* the value JavaScript yields for an out-of-range index (charset[NaN])
undefined == "undefined"

\* Array.prototype.join(''): undefined elements are rendered as ''
join(array) == SelectSeq(array, LAMBDA c : c # undefined)

\* ------------------------------------------------------------------------
\* this.charSets
\* ------------------------------------------------------------------------

\* the grave accent U+0060, which a TLA+ string cannot hold
backtick == "U+0060"

charSets ==
  [uppercase |-> <<"A","B","C","D","E","F","G","H","I","J","K","L","M",
                   "N","O","P","Q","R","S","T","U","V","W","X","Y","Z">>,
   lowercase |-> <<"a","b","c","d","e","f","g","h","i","j","k","l","m",
                   "n","o","p","q","r","s","t","u","v","w","x","y","z">>,
   numbers   |-> <<"0","1","2","3","4","5","6","7","8","9">>,
   symbols   |-> <<"!","@","#","$","%","^","&","*","(",")","_","+","-",
                   "=","[","]","{","}","|",";",":",",",".","<",">","?">>,
   similar   |-> <<"0","O","o","1","l","I">>,
   ambiguous |-> <<"{","}","[","]","(",")","/","\\","\"","'",backtick,"~",
                   ",",";",".","<",">">>]

\* ------------------------------------------------------------------------
\* The random source: crypto.getRandomValues(new Uint32Array(1))
\* ------------------------------------------------------------------------

\* the 32-bit words the model lets the random source deliver in one draw
RandVals == {0, 14, 2147483647}

\* ------------------------------------------------------------------------
\* Password generation
\* ------------------------------------------------------------------------

\* validateOptions that never rejects
validateOptions_always(options) == TRUE

validateOptions(options) ==
  \/ options.includeUppercase
  \/ options.includeLowercase
  \/ options.includeNumbers
  \/ options.includeSymbols

\* removeChars with the filter's negation lost
removeChars_keeps(charset, charsToRemove) ==
  SelectSeq(charset, LAMBDA char : includes(charsToRemove, char))

removeChars(charset, charsToRemove) ==
  SelectSeq(charset, LAMBDA char : ~includes(charsToRemove, char))

\* charset[array[0] % charset.length]; x % 0 is NaN and charset[NaN] is
\* undefined
getRandomChar(charset, word) ==
  IF Len(charset) = 0 THEN undefined
  ELSE charset[(word % Len(charset)) + 1]

\* the four filtered strings the `if (options.exclude...)` branches build;
\* they depend on the constant charSets only
upperWithoutSimilar == removeChars(charSets.uppercase, charSets.similar)

lowerWithoutSimilar == removeChars(charSets.lowercase, charSets.similar)

\* the digits with every digit listed as similar
numbersWithoutSimilar_allSimilar ==
  removeChars(charSets.numbers, charSets.numbers)

numbersWithoutSimilar == removeChars(charSets.numbers, charSets.similar)

symbolsWithoutAmbiguous == removeChars(charSets.symbols, charSets.ambiguous)

upperChars(options) ==
  IF options.excludeSimilar THEN upperWithoutSimilar ELSE charSets.uppercase

lowerChars(options) ==
  IF options.excludeSimilar THEN lowerWithoutSimilar ELSE charSets.lowercase

numberChars(options) ==
  IF options.excludeSimilar THEN numbersWithoutSimilar ELSE charSets.numbers

\* symbolChars with the excludeAmbiguous branch lost
symbolChars_unfiltered(options) == charSets.symbols

symbolChars(options) ==
  IF options.excludeAmbiguous THEN symbolsWithoutAmbiguous
  ELSE charSets.symbols

\* the filtered strings of the selected classes, in the order the four
\* `if (options.include...)` blocks run
selectedClasses(options) ==
  (IF options.includeUppercase THEN <<upperChars(options)>> ELSE <<>>) \o
  (IF options.includeLowercase THEN <<lowerChars(options)>> ELSE <<>>) \o
  (IF options.includeNumbers THEN <<numberChars(options)>> ELSE <<>>) \o
  (IF options.includeSymbols THEN <<symbolChars(options)>> ELSE <<>>)

\* the local `charset` once the four blocks have run
charset(options) ==
  (IF options.includeUppercase THEN upperChars(options) ELSE <<>>) \o
  (IF options.includeLowercase THEN lowerChars(options) ELSE <<>>) \o
  (IF options.includeNumbers THEN numberChars(options) ELSE <<>>) \o
  (IF options.includeSymbols THEN symbolChars(options) ELSE <<>>)

\* guaranteedChars: one getRandomChar per selected class, over that class
guaranteedChars(classes, words) ==
  [k \in 1..Len(classes) |-> getRandomChar(classes[k], words[k])]

\* remainingLength off by one
remainingLength_short(options, guaranteed) ==
  options.length - Len(guaranteed) - 1

\* options.length - guaranteedChars.length
remainingLength(options, guaranteed) == options.length - Len(guaranteed)

\* randomChars: the loop `for (i = 0; i < remainingLength; i++)`
randomChars(all, remaining, words) ==
  [i \in 1..Max(0, remaining) |-> getRandomChar(all, words[i])]

\* swap that overwrites array[i] and leaves array[j] as it was
swap_overwrite(array, i, j) == [array EXCEPT ![i] = array[j]]

\* [array[i], array[j]] = [array[j], array[i]]  (positions are 1-based here)
swap(array, i, j) ==
  [array EXCEPT ![i] = array[j], ![j] = array[i]]

\* shuffleArray's loop from index i (0-based) down to 1, one word per step
RECURSIVE shuffleFrom(_, _, _)
shuffleFrom(array, i, words) ==
  IF i <= 0 THEN array
  ELSE shuffleFrom(swap(array, i + 1, (Head(words) % (i + 1)) + 1),
                   i - 1, Tail(words))

shuffleArray(array, words) == shuffleFrom(array, Len(array) - 1, words)

\* number of words createPassword takes from the random source: one per
\* selected class, one per remaining character, one per shuffle step
DrawCount(options) ==
  LET n == Len(selectedClasses(options))
  IN  n + Max(0, options.length - n) + Max(0, Max(options.length, n) - 1)

\* createPassword, given the words the random source delivers, in order
createPassword(options, words) ==
  LET classes    == selectedClasses(options)
      guaranteed == guaranteedChars(classes, SubSeq(words, 1, Len(classes)))
      remaining  == Max(0, remainingLength(options, guaranteed))
      random     == randomChars(charset(options), remaining,
                                SubSeq(words, Len(classes) + 1,
                                       Len(classes) + remaining))
      allChars   == guaranteed \o random
  IN  join(shuffleArray(allChars,
                        SubSeq(words, Len(classes) + remaining + 1,
                               Len(words))))

\* ------------------------------------------------------------------------
\* Strength analysis
\* ------------------------------------------------------------------------

\* the character classes of the regular expressions [A-Z], [a-z] and \d
UpperLetters == Range(charSets.uppercase)

LowerLetters == Range(charSets.lowercase)

Digits == Range(charSets.numbers)

\* RegExp.prototype.test for a one-character class
test(class, password) == \E i \in 1..Len(password) : password[i] \in class

\* /[^A-Za-z0-9]/.test(password)
testSymbol(password) ==
  \E i \in 1..Len(password) :
    password[i] \notin (UpperLetters \cup LowerLetters \cup Digits)

\* Array.prototype.indexOf: the first (1-based) position of char
indexOf(chars, char) ==
  CHOOSE i \in 1..Len(chars) :
    chars[i] = char /\ \A k \in 1..(i - 1) : chars[k] # char

hasRepeatedChars(password) ==
  LET repeated ==
        {index \in 1..Len(password) :
           indexOf(password, password[index]) # index}
  IN  Cardinality(repeated) > 0

\* String.prototype.toLowerCase on one character
lowerChar(c) ==
  IF c \in UpperLetters
  THEN charSets.lowercase[indexOf(charSets.uppercase, c)]
  ELSE c

toLowerCase(string) == [i \in 1..Len(string) |-> lowerChar(string[i])]

\* String.prototype.includes for a substring
stringIncludes(string, sub) ==
  \E k \in 0..(Len(string) - Len(sub)) :
    SubSeq(string, k + 1, k + Len(sub)) = sub

\* split('').reverse().join('')
reverse(string) == [i \in 1..Len(string) |-> string[Len(string) + 1 - i]]

sequences ==
  <<charSets.numbers,
    charSets.lowercase,
    <<"q","w","e","r","t","y","u","i","o","p">>,
    <<"a","s","d","f","g","h","j","k","l">>,
    <<"z","x","c","v","b","n","m">>>>

\* every seq.substring(i, i + 3) the two nested loops visit
subseqs ==
  UNION {{SubSeq(sequences[s], i + 1, i + 3) :
            i \in 0..(Len(sequences[s]) - 3)} : s \in 1..Len(sequences)}

\* hasSequentialChars without the reversed windows
hasSequentialChars_forwardOnly(password) ==
  LET lower == toLowerCase(password)
  IN  \E subseq \in subseqs : stringIncludes(lower, subseq)

hasSequentialChars(password) ==
  LET lower == toLowerCase(password)
  IN  \E subseq \in subseqs :
        \/ stringIncludes(lower, subseq)
        \/ stringIncludes(lower, reverse(subseq))

\* the local `charset` of calculateEntropy
entropyCharset(password) ==
  (IF test(LowerLetters, password) THEN 26 ELSE 0)
  + (IF test(UpperLetters, password) THEN 26 ELSE 0)
  + (IF test(Digits, password) THEN 10 ELSE 0)
  + (IF testSymbol(password) THEN 32 ELSE 0)

\* Math.log2 in millionths of a bit, rounded down, on the alphabet sizes
\* calculateEntropy can build; Math.log2(0) is -Infinity
log2Micro(x) ==
  CASE x = 10 -> 3321928
    [] x = 26 -> 4700439
    [] x = 32 -> 5000000
    [] x = 36 -> 5169925
    [] x = 42 -> 5392317
    [] x = 52 -> 5700439
    [] x = 58 -> 5857980
    [] x = 62 -> 5954196
    [] x = 68 -> 6087462
    [] x = 84 -> 6392317
    [] x = 94 -> 6554588

\* password.length * Math.log2(charset), in millionths of a bit; the
\* alphabet is empty only for the empty string, where 0 * -Infinity is NaN
calculateEntropy(password) ==
  IF entropyCharset(password) = 0
  THEN [nan |-> TRUE, micro |-> 0]
  ELSE [nan |-> FALSE,
        micro |-> Len(password) * log2Micro(entropyCharset(password))]

\* entropy > bits and entropy < bits; every comparison with NaN is false
entropyAbove(entropy, bits) ==
  ~entropy.nan /\ entropy.micro > bits * 1000000

entropyBelow(entropy, bits) ==
  ~entropy.nan /\ entropy.micro < bits * 1000000

\* calculateStrengthScore with symbols worth 10 instead of 15
calculateStrengthScore_symbols10(analysis) ==
  LET score ==
          (IF analysis.length >= 8 THEN 25 ELSE 0)
        + (IF analysis.length >= 12 THEN 15 ELSE 0)
        + (IF analysis.length >= 16 THEN 10 ELSE 0)
        + (IF analysis.hasUppercase THEN 10 ELSE 0)
        + (IF analysis.hasLowercase THEN 10 ELSE 0)
        + (IF analysis.hasNumbers THEN 10 ELSE 0)
        + (IF analysis.hasSymbols THEN 10 ELSE 0)
        + (IF entropyAbove(analysis.entropy, 40) THEN 10 ELSE 0)
        + (IF entropyAbove(analysis.entropy, 60) THEN 5 ELSE 0)
        - (IF analysis.hasRepeated THEN 10 ELSE 0)
        - (IF analysis.hasSequential THEN 15 ELSE 0)
        - (IF analysis.length < 8 THEN 20 ELSE 0)
  IN  Max(0, Min(100, score))

\* calculateStrengthScore without the class and entropy bonuses
calculateStrengthScore_lengthOnly(analysis) ==
  LET score ==
          (IF analysis.length >= 8 THEN 25 ELSE 0)
        + (IF analysis.length >= 12 THEN 15 ELSE 0)
        + (IF analysis.length >= 16 THEN 10 ELSE 0)
        - (IF analysis.hasRepeated THEN 10 ELSE 0)
        - (IF analysis.hasSequential THEN 15 ELSE 0)
        - (IF analysis.length < 8 THEN 20 ELSE 0)
  IN  Max(0, Min(100, score))

\* calculateStrengthScore with the 12-character bonus taken off instead
calculateStrengthScore_longPenalty(analysis) ==
  LET score ==
          (IF analysis.length >= 8 THEN 25 ELSE 0)
        - (IF analysis.length >= 12 THEN 15 ELSE 0)
        + (IF analysis.length >= 16 THEN 10 ELSE 0)
        + (IF analysis.hasUppercase THEN 10 ELSE 0)
        + (IF analysis.hasLowercase THEN 10 ELSE 0)
        + (IF analysis.hasNumbers THEN 10 ELSE 0)
        + (IF analysis.hasSymbols THEN 15 ELSE 0)
        + (IF entropyAbove(analysis.entropy, 40) THEN 10 ELSE 0)
        + (IF entropyAbove(analysis.entropy, 60) THEN 5 ELSE 0)
        - (IF analysis.hasRepeated THEN 10 ELSE 0)
        - (IF analysis.hasSequential THEN 15 ELSE 0)
        - (IF analysis.length < 8 THEN 20 ELSE 0)
  IN  Max(0, Min(100, score))

calculateStrengthScore(analysis) ==
  LET score ==
          (IF analysis.length >= 8 THEN 25 ELSE 0)
        + (IF analysis.length >= 12 THEN 15 ELSE 0)
        + (IF analysis.length >= 16 THEN 10 ELSE 0)
        + (IF analysis.hasUppercase THEN 10 ELSE 0)
        + (IF analysis.hasLowercase THEN 10 ELSE 0)
        + (IF analysis.hasNumbers THEN 10 ELSE 0)
        + (IF analysis.hasSymbols THEN 15 ELSE 0)
        + (IF entropyAbove(analysis.entropy, 40) THEN 10 ELSE 0)
        + (IF entropyAbove(analysis.entropy, 60) THEN 5 ELSE 0)
        - (IF analysis.hasRepeated THEN 10 ELSE 0)
        - (IF analysis.hasSequential THEN 15 ELSE 0)
        - (IF analysis.length < 8 THEN 20 ELSE 0)
  IN  Max(0, Min(100, score))

\* getStrengthLevel with strict comparisons
getStrengthLevel_strict(score) ==
  IF score > 90 THEN "Excellent"
  ELSE IF score > 75 THEN "Strong"
  ELSE IF score > 60 THEN "Good"
  ELSE IF score > 40 THEN "Fair"
  ELSE IF score > 20 THEN "Weak"
  ELSE "Very Weak"

getStrengthLevel(score) ==
  IF score >= 90 THEN "Excellent"
  ELSE IF score >= 75 THEN "Strong"
  ELSE IF score >= 60 THEN "Good"
  ELSE IF score >= 40 THEN "Fair"
  ELSE IF score >= 20 THEN "Weak"
  ELSE "Very Weak"

\* analysisFeatures with the two letter classes exchanged
analysisFeatures_swappedCase(password) ==
  [length        |-> Len(password),
   hasUppercase  |-> test(LowerLetters, password),
   hasLowercase  |-> test(UpperLetters, password),
   hasNumbers    |-> test(Digits, password),
   hasSymbols    |-> testSymbol(password),
   hasRepeated   |-> hasRepeatedChars(password),
   hasSequential |-> hasSequentialChars(password),
   entropy       |-> calculateEntropy(password),
   score         |-> 0,
   level         |-> "Very Weak"]

\* the object literal analyzePassword starts from (score 0, 'Very Weak')
analysisFeatures(password) ==
  [length        |-> Len(password),
   hasUppercase  |-> test(UpperLetters, password),
   hasLowercase  |-> test(LowerLetters, password),
   hasNumbers    |-> test(Digits, password),
   hasSymbols    |-> testSymbol(password),
   hasRepeated   |-> hasRepeatedChars(password),
   hasSequential |-> hasSequentialChars(password),
   entropy       |-> calculateEntropy(password),
   score         |-> 0,
   level         |-> "Very Weak"]

analyzePassword(password) ==
  LET analysis == analysisFeatures(password)
      score    == calculateStrengthScore(analysis)
  IN  [analysis EXCEPT !.score = score, !.level = getStrengthLevel(score)]

\* ------------------------------------------------------------------------
\* Extended analysis: PasswordTester and AdvancedAnalyzer
\* ------------------------------------------------------------------------

commonPasswords ==
  <<<<"p","a","s","s","w","o","r","d">>,
    <<"1","2","3","4","5","6">>,
    <<"p","a","s","s","w","o","r","d","1","2","3">>,
    <<"a","d","m","i","n">>,
    <<"q","w","e","r","t","y">>,
    <<"l","e","t","m","e","i","n">>,
    <<"w","e","l","c","o","m","e">>,
    <<"m","o","n","k","e","y">>,
    <<"1","2","3","4","5","6","7","8","9","0">>,
    <<"a","b","c","1","2","3">>>>

isCommonPassword(password) ==
  \E k \in 1..Len(commonPasswords) :
    stringIncludes(toLowerCase(password), toLowerCase(commonPasswords[k]))

\* /^word\d*$/i, or /^word\d+$/i when minDigits is 1
testWordDigits(password, word, minDigits) ==
  LET lower == toLowerCase(password)
  IN  /\ Len(lower) >= Len(word) + minDigits
      /\ SubSeq(lower, 1, Len(word)) = word
      /\ \A i \in (Len(word) + 1)..Len(lower) : lower[i] \in Digits

\* /^[class]{min,max}$/
testAllOf(password, class, min, max) ==
  /\ Len(password) >= min
  /\ Len(password) <= max
  /\ \A i \in 1..Len(password) : password[i] \in class

checkAgainstLeaks(password) ==
  \/ testWordDigits(password, <<"p","a","s","s","w","o","r","d">>, 1)
  \/ testWordDigits(password, <<"a","d","m","i","n">>, 0)
  \/ testWordDigits(password, <<"u","s","e","r">>, 0)
  \/ testWordDigits(password, <<"t","e","s","t">>, 0)
  \/ testAllOf(password, Digits, 4, 8)
  \/ testAllOf(password, UpperLetters \cup LowerLetters, 1, 8)

keyboardRows ==
  <<<<"q","w","e","r","t","y","u","i","o","p">>,
    <<"a","s","d","f","g","h","j","k","l">>,
    <<"z","x","c","v","b","n","m">>,
    <<"1","2","3","4","5","6","7","8","9","0">>>>

isKeyboardPattern(password) ==
  \E r \in 1..Len(keyboardRows) :
    \E i \in 0..(Len(keyboardRows[r]) - 3) :
      stringIncludes(toLowerCase(password),
                     SubSeq(keyboardRows[r], i + 1, i + 3))

commonWords ==
  <<<<"p","a","s","s","w","o","r","d">>,
    <<"w","e","l","c","o","m","e">>,
    <<"h","e","l","l","o">>,
    <<"w","o","r","l","d">>,
    <<"l","o","v","e">>,
    <<"f","a","m","i","l","y">>,
    <<"f","r","i","e","n","d">>,
    <<"c","o","m","p","u","t","e","r">>,
    <<"i","n","t","e","r","n","e","t">>,
    <<"s","e","c","u","r","i","t","y">>,
    <<"l","o","g","i","n">>>>

isDictionaryWord(password) ==
  \E k \in 1..Len(commonWords) :
    stringIncludes(toLowerCase(password), commonWords[k])

\* an unanchored regular expression that is a sequence of one-character
\* classes: it matches when some window of the string fits the template
testTemplate(string, template) ==
  \E k \in 0..(Len(string) - Len(template)) :
    \A i \in 1..Len(template) : string[k + i] \in template[i]

\* \w, the word characters of \b
WordChars == UpperLetters \cup LowerLetters \cup Digits \cup {"_"}

months ==
  <<<<"j","a","n">>, <<"f","e","b">>, <<"m","a","r">>, <<"a","p","r">>,
    <<"m","a","y">>, <<"j","u","n">>, <<"j","u","l">>, <<"a","u","g">>,
    <<"s","e","p">>, <<"o","c","t">>, <<"n","o","v">>, <<"d","e","c">>>>

\* /\b(jan|feb|...|dec)/i: a month name that starts the string or follows
\* a non-word character
testMonth(password) ==
  LET lower == toLowerCase(password)
  IN  \E m \in 1..Len(months) :
        \E k \in 0..(Len(lower) - 3) :
          /\ SubSeq(lower, k + 1, k + 3) = months[m]
          /\ (k = 0 \/ lower[k] \notin WordChars)

mightBePersonalInfo(password) ==
  \/ testTemplate(password, <<Digits, Digits, {"/"}, Digits, Digits, {"/"},
                              Digits, Digits, Digits, Digits>>)
  \/ testTemplate(password, <<Digits, Digits, Digits, Digits, {"-"},
                              Digits, Digits, {"-"}, Digits, Digits>>)
  \/ testTemplate(password, <<Digits, Digits, {"-"}, Digits, Digits, {"-"},
                              Digits, Digits, Digits, Digits>>)
  \/ testTemplate(password, <<{"1"}, {"9"}, Digits, Digits>>)
  \/ testTemplate(password, <<{"2"}, {"0"}, Digits, Digits>>)
  \/ testMonth(password)

\* hasRepeatedSubstring searching from the character after position i
hasRepeatedSubstring_overlapping(password) ==
  \E len \in 2..(Len(password) \div 2) :
    \E i \in 0..(Len(password) - len - 1) :
      stringIncludes(SubSeq(password, i + 2, Len(password)),
                     SubSeq(password, i + 1, i + len))

hasRepeatedSubstring(password) ==
  \E len \in 2..(Len(password) \div 2) :
    \E i \in 0..(Len(password) - len * 2) :
      stringIncludes(SubSeq(password, i + len + 1, Len(password)),
                     SubSeq(password, i + 1, i + len))

analyzePattern(password) ==
  [keyboard   |-> isKeyboardPattern(password),
   dictionary |-> isDictionaryWord(password),
   personal   |-> mightBePersonalInfo(password),
   repeated   |-> hasRepeatedSubstring(password)]

\* getAdvancedRecommendations with the leaked entry pushed after the
\* keyboard entry and tagged as a warning
getAdvancedRecommendations_leakedLate(basic, patterns, isCommon, isLeaked) ==
  (IF isCommon
   THEN <<[type |-> "critical", text |-> "Avoid common passwords"]>>
   ELSE <<>>) \o
  (IF patterns.keyboard
   THEN <<[type |-> "warning", text |-> "Avoid keyboard patterns"]>>
   ELSE <<>>) \o
  (IF isLeaked
   THEN <<[type |-> "warning",
           text |-> "This pattern appears in data breaches"]>>
   ELSE <<>>) \o
  (IF patterns.dictionary
   THEN <<[type |-> "warning", text |-> "Avoid dictionary words"]>>
   ELSE <<>>) \o
  (IF patterns.personal
   THEN <<[type |-> "warning",
           text |-> "Avoid personal information like dates"]>>
   ELSE <<>>) \o
  (IF patterns.repeated
   THEN <<[type |-> "info", text |-> "Avoid repeated character patterns"]>>
   ELSE <<>>) \o
  (IF entropyBelow(basic.entropy, 50)
   THEN <<[type |-> "info", text |-> "Increase password complexity"]>>
   ELSE <<>>)

getAdvancedRecommendations(basic, patterns, isCommon, isLeaked) ==
  (IF isCommon
   THEN <<[type |-> "critical", text |-> "Avoid common passwords"]>>
   ELSE <<>>) \o
  (IF isLeaked
   THEN <<[type |-> "critical",
           text |-> "This pattern appears in data breaches"]>>
   ELSE <<>>) \o
  (IF patterns.keyboard
   THEN <<[type |-> "warning", text |-> "Avoid keyboard patterns"]>>
   ELSE <<>>) \o
  (IF patterns.dictionary
   THEN <<[type |-> "warning", text |-> "Avoid dictionary words"]>>
   ELSE <<>>) \o
  (IF patterns.personal
   THEN <<[type |-> "warning",
           text |-> "Avoid personal information like dates"]>>
   ELSE <<>>) \o
  (IF patterns.repeated
   THEN <<[type |-> "info", text |-> "Avoid repeated character patterns"]>>
   ELSE <<>>) \o
  (IF entropyBelow(basic.entropy, 50)
   THEN <<[type |-> "info", text |-> "Increase password complexity"]>>
   ELSE <<>>)

\* the object performAdvancedAnalysis returns: the basic analysis spread
\* into it, then the four extra fields
performAdvancedAnalysis(password) ==
  LET basicAnalysis == analyzePassword(password)
      patterns      == analyzePattern(password)
      isCommon      == isCommonPassword(password)
      isLeaked      == checkAgainstLeaks(password)
  IN  basicAnalysis @@
      [patterns        |-> patterns,
       isCommon        |-> isCommon,
       isLeaked        |-> isLeaked,
       recommendations |->
         getAdvancedRecommendations(basicAnalysis, patterns,
                                    isCommon, isLeaked)]

\* ------------------------------------------------------------------------
\* Strength meter (the DOM elements checkPasswordStrength writes)
\* ------------------------------------------------------------------------

\* `strength-${analysis.level.toLowerCase().replace(' ', '-')}`: replace
\* with a string pattern replaces the first space only
levelClass(level) ==
  CASE level = "Excellent" -> "strength-excellent"
    [] level = "Strong"    -> "strength-strong"
    [] level = "Good"      -> "strength-good"
    [] level = "Fair"      -> "strength-fair"
    [] level = "Weak"      -> "strength-weak"
    [] level = "Very Weak" -> "strength-very-weak"

updateStrengthMeter(meter, analysis) ==
  [meter EXCEPT !.width = analysis.score,
                !.levelClass = levelClass(analysis.level),
                !.label = analysis.level,
                !.score = <<analysis.score, "/100">>]

resetStrengthMeter(meter) ==
  [meter EXCEPT !.width = 0,
                !.levelClass = "",
                !.label = "Enter a password to check",
                !.score = <<>>,
                !.criteria = {},
                !.suggestionsDisplay = "none"]

\* the criteria that carry the class 'met' after updateCriteria
updateCriteria(meter, password, analysis) ==
  [meter EXCEPT !.criteria =
     (IF Len(password) >= 8 THEN {"lengthCriterion"} ELSE {})
     \cup (IF analysis.hasUppercase THEN {"uppercaseCriterion"} ELSE {})
     \cup (IF analysis.hasLowercase THEN {"lowercaseCriterion"} ELSE {})
     \cup (IF analysis.hasNumbers THEN {"numberCriterion"} ELSE {})
     \cup (IF analysis.hasSymbols THEN {"symbolCriterion"} ELSE {})
     \cup (IF Len(password) >= 12 THEN {"lengthBonusCriterion"} ELSE {})]

\* updateSuggestions with the two length tests chained by `else if`
suggestions_elseIf(analysis) ==
  (IF analysis.length < 8 THEN <<"Use at least 8 characters">>
   ELSE IF analysis.length < 12
   THEN <<"Use 12+ characters for better security">> ELSE <<>>) \o
  (IF ~analysis.hasUppercase THEN <<"Add uppercase letters">> ELSE <<>>) \o
  (IF ~analysis.hasLowercase THEN <<"Add lowercase letters">> ELSE <<>>) \o
  (IF ~analysis.hasNumbers THEN <<"Add numbers">> ELSE <<>>) \o
  (IF ~analysis.hasSymbols THEN <<"Add special characters">> ELSE <<>>) \o
  (IF analysis.hasRepeated THEN <<"Avoid repeated characters">> ELSE <<>>) \o
  (IF analysis.hasSequential
   THEN <<"Avoid sequential characters">> ELSE <<>>)

\* the local `suggestions` of updateSuggestions
suggestions(analysis) ==
  (IF analysis.length < 8 THEN <<"Use at least 8 characters">> ELSE <<>>) \o
  (IF analysis.length < 12
   THEN <<"Use 12+ characters for better security">> ELSE <<>>) \o
  (IF ~analysis.hasUppercase THEN <<"Add uppercase letters">> ELSE <<>>) \o
  (IF ~analysis.hasLowercase THEN <<"Add lowercase letters">> ELSE <<>>) \o
  (IF ~analysis.hasNumbers THEN <<"Add numbers">> ELSE <<>>) \o
  (IF ~analysis.hasSymbols THEN <<"Add special characters">> ELSE <<>>) \o
  (IF analysis.hasRepeated THEN <<"Avoid repeated characters">> ELSE <<>>) \o
  (IF analysis.hasSequential
   THEN <<"Avoid sequential characters">> ELSE <<>>)

\* the list is rewritten only when there is something to suggest
updateSuggestions(meter, analysis) ==
  IF Len(suggestions(analysis)) > 0
  THEN [meter EXCEPT !.suggestionsList = suggestions(analysis),
                     !.suggestionsDisplay = "block"]
  ELSE [meter EXCEPT !.suggestionsDisplay = "none"]

checkPasswordStrength(meter, password) ==
  IF Len(password) = 0
  THEN resetStrengthMeter(meter)
  ELSE LET analysis == analyzePassword(password)
       IN  updateSuggestions(
             updateCriteria(updateStrengthMeter(meter, analysis),
                            password, analysis),
             analysis)

\* ------------------------------------------------------------------------
\* Password history and its copy in localStorage
\* ------------------------------------------------------------------------

\* JSON.stringify of one string character: quote and backslash are escaped
escapeChar(c) ==
  IF c = "\"" \/ c = "\\" THEN <<"\\", c>> ELSE <<c>>

RECURSIVE escapeString(_)
escapeString(string) ==
  IF Len(string) = 0 THEN <<>>
  ELSE escapeChar(Head(string)) \o escapeString(Tail(string))

RECURSIVE stringifyItems(_)
stringifyItems(array) ==
  IF Len(array) = 0 THEN <<>>
  ELSE <<"\"">> \o escapeString(Head(array)) \o <<"\"">>
       \o (IF Len(array) > 1 THEN <<",">> ELSE <<>>)
       \o stringifyItems(Tail(array))

\* JSON.stringify(this.passwordHistory): the text, character by character
stringify(array) == <<"[">> \o stringifyItems(array) \o <<"]">>

\* localStorage without the item 'passwordHistory' (getItem returns null)
NoItem == <<>>

savePasswordHistory(history) == stringify(history)

\* JSON.parse inside a string literal, from position i (after the opening
\* quote): the characters up to the closing quote, a backslash standing
\* for the character after it
RECURSIVE parseString(_, _, _)
parseString(text, i, string) ==
  IF text[i] = "\""
  THEN [value |-> string, next |-> i + 1]
  ELSE IF text[i] = "\\"
  THEN parseString(text, i + 2, Append(string, text[i + 1]))
  ELSE parseString(text, i + 1, Append(string, text[i]))

\* JSON.parse inside an array of strings, from position i
RECURSIVE parseElements(_, _, _)
parseElements(text, i, array) ==
  IF text[i] = "]" THEN array
  ELSE IF text[i] = "," THEN parseElements(text, i + 1, array)
  ELSE LET string == parseString(text, i + 1, <<>>)
       IN  parseElements(text, string.next, Append(array, string.value))

\* JSON.parse of the text of an array of strings
parse(text) == parseElements(text, 2, <<>>)

\* `saved ? JSON.parse(saved) : []`
loadPasswordHistory(saved) ==
  IF saved = NoItem THEN <<>> ELSE parse(saved)

\* addToHistory without the duplicate check
addToHistory_duplicates(history, password) ==
  LET unshifted == <<password>> \o history
  IN  IF Len(unshifted) > 10 THEN SubSeq(unshifted, 1, 10) ELSE unshifted

\* the array addToHistory leaves in this.passwordHistory
addToHistory(history, password) ==
  IF includes(history, password) THEN history
  ELSE LET unshifted == <<password>> \o history
       IN  IF Len(unshifted) > 10 THEN SubSeq(unshifted, 1, 10)
           ELSE unshifted

\* this.passwordHistory.splice(index, 1), index counted from 0
splice(history, index) ==
  SubSeq(history, 1, index) \o SubSeq(history, index + 2, Len(history))

\* ------------------------------------------------------------------------
\* State
\* ------------------------------------------------------------------------

VARIABLES
  options,            \* the controls read by getPasswordOptions
  generatedPassword,  \* elements.generatedPassword.value
  passwordHistory,    \* this.passwordHistory
  localStorage,       \* the item 'passwordHistory' of localStorage
  toast,              \* elements.toast: message and type
  strengthMeter,      \* the strength meter elements
  strengthInput,      \* elements.strengthInput.value
  advancedAnalysis,   \* the last value performAdvancedAnalysis returned
  created,            \* the last value createPassword returned
  rng,                \* number of words the random source has delivered
  clipboard,          \* the text last written to the system clipboard
  copyToClipboard,    \* what this.copyToClipboard resolves to
  modalPasswords      \* the passwords offered by the open modals

vars == <<options, generatedPassword, passwordHistory, localStorage, toast,
          strengthMeter, strengthInput, advancedAnalysis, created, rng,
          clipboard, copyToClipboard, modalPasswords>>

\* the state written by the copy actions and the multiple-passwords modal
copyState == <<clipboard, copyToClipboard, modalPasswords>>

\* this.copyToClipboard found on the prototype: the method of the class
PrototypeCopy == [own |-> FALSE, password |-> <<>>]

\* the page before anything was copied and before any modal was opened
NothingCopied ==
  /\ clipboard = <<>>
  /\ copyToClipboard = PrototypeCopy
  /\ modalPasswords = {}

OptionSets(lengths) ==
  [length : lengths,
   includeUppercase : BOOLEAN, includeLowercase : BOOLEAN,
   includeNumbers : BOOLEAN, includeSymbols : BOOLEAN,
   excludeSimilar : BOOLEAN, excludeAmbiguous : BOOLEAN]

\* the page as loaded, before the constructor runs
BlankMeter ==
  [width |-> 0, levelClass |-> "", label |-> "Enter a password to check",
   score |-> <<>>, criteria |-> {}, suggestionsList |-> <<>>,
   suggestionsDisplay |-> "none"]

BlankToast == [message |-> "", type |-> ""]

NotCalled == [called |-> FALSE, value |-> <<>>]

NotAnalysed == [called |-> FALSE, password |-> <<>>, value |-> <<>>]

\* the part of the state that generatePassword reads and writes
this ==
  [options |-> options, generatedPassword |-> generatedPassword,
   passwordHistory |-> passwordHistory, localStorage |-> localStorage,
   toast |-> toast, strengthMeter |-> strengthMeter, created |-> created]

Become(t) ==
  /\ options' = t.options
  /\ generatedPassword' = t.generatedPassword
  /\ passwordHistory' = t.passwordHistory
  /\ localStorage' = t.localStorage
  /\ toast' = t.toast
  /\ strengthMeter' = t.strengthMeter
  /\ created' = t.created

\* ------------------------------------------------------------------------
\* SpecCreate: createPassword applied to every valid option set
\* ------------------------------------------------------------------------

InitCreate ==
  /\ options \in {o \in OptionSets(1..MaxLength) : validateOptions(o)}
  /\ generatedPassword = <<>>
  /\ passwordHistory = <<>>
  /\ localStorage = NoItem
  /\ toast = BlankToast
  /\ strengthMeter = BlankMeter
  /\ strengthInput = <<>>
  /\ advancedAnalysis = NotAnalysed
  /\ created = NotCalled
  /\ rng = 0
  /\ NothingCopied

CreatePassword ==
  /\ ~created.called
  /\ \E words \in [1..DrawCount(options) -> RandVals] :
       created' = [called |-> TRUE, value |-> createPassword(options, words)]
  /\ UNCHANGED <<copyState, options, generatedPassword, passwordHistory, localStorage,
                 toast, strengthMeter, strengthInput, advancedAnalysis, rng>>

NextCreate == CreatePassword

SpecCreate == InitCreate /\ [][NextCreate]_vars

\* ------------------------------------------------------------------------
\* Spec: the page after construction and its handlers
\* ------------------------------------------------------------------------

\* largest number of words the random source delivers in one behaviour
MaxDraws == 12

\* the words the random source delivers in Spec, in order: the third word
\* repeats the first, every later word is new
SourceTape == <<0, 1, 0, 2, 3, 4, 5, 6, 7, 8, 9, 10, 11, 12, 13, 15>>

\* the `count` words that follow the first `from` words
sourceWords(from, count) == [i \in 1..count |-> SourceTape[from + i]]

\* the checkboxes and the slider value operated in Spec
AppCheckboxes == {"includeUppercase"}

AppLength == 1

AppOptionSets ==
  {o \in OptionSets({AppLength}) :
     /\ ~o.includeLowercase /\ ~o.includeNumbers /\ ~o.includeSymbols
     /\ ~o.excludeSimilar /\ ~o.excludeAmbiguous}

NoClassToast ==
  [message |-> "Please select at least one character type!",
   type |-> "error"]

GeneratedToast ==
  [message |-> "Password generated successfully!", type |-> "success"]

\* words createPassword will take when generatePassword runs on options o
wordsNeeded(o) == IF validateOptions(o) THEN DrawCount(o) ELSE 0

\* generatePassword on the state t, the random source delivering `words`
generatePassword(t, words) ==
  IF ~validateOptions(t.options)
  THEN [t EXCEPT !.toast = NoClassToast]
  ELSE LET password == createPassword(t.options, words)
       IN  [t EXCEPT
              !.generatedPassword = password,
              !.created = [called |-> TRUE, value |-> password],
              !.passwordHistory = addToHistory(@, password),
              !.localStorage =
                 IF includes(t.passwordHistory, password) THEN @
                 ELSE savePasswordHistory(
                        addToHistory(t.passwordHistory, password)),
              !.strengthMeter = checkPasswordStrength(@, password),
              !.toast = GeneratedToast]

\* the state the constructor starts from: loadPasswordHistory finds no item
Loaded(o) ==
  [options |-> o, generatedPassword |-> <<>>, passwordHistory |-> <<>>,
   localStorage |-> NoItem, toast |-> BlankToast,
   strengthMeter |-> BlankMeter, created |-> NotCalled]

\* the state the constructor starts from when localStorage holds `saved`
LoadedFrom(o, saved) ==
  [Loaded(o) EXCEPT !.passwordHistory = loadPasswordHistory(saved),
                    !.localStorage = saved]

\* after `new PasswordGenerator()`: init() has called generatePassword
Init ==
  \E o \in AppOptionSets :
      LET t == generatePassword(Loaded(o),
                                sourceWords(0, wordsNeeded(o)))
      IN  /\ options = t.options
          /\ generatedPassword = t.generatedPassword
          /\ passwordHistory = t.passwordHistory
          /\ localStorage = t.localStorage
          /\ toast = t.toast
          /\ strengthMeter = t.strengthMeter
          /\ created = t.created
          /\ rng = wordsNeeded(o)
          /\ strengthInput = <<>>
          /\ advancedAnalysis = NotAnalysed
          /\ NothingCopied

\* generatePassword as a handler, on the state t
Generate(t) ==
  /\ rng + wordsNeeded(t.options) <= MaxDraws
  /\ Become(generatePassword(t, sourceWords(rng, wordsNeeded(t.options))))
  /\ rng' = rng + wordsNeeded(t.options)
  /\ UNCHANGED <<copyState, strengthInput, advancedAnalysis>>

\* the Generate and Regenerate buttons and Ctrl+G
ClickGenerate == Generate(this)

\* a 'change' event of one option checkbox
ChangeCheckbox(id) ==
  LET t == [this EXCEPT !.options[id] = ~@]
  IN  IF generatedPassword # <<>>
      THEN Generate(t)
      ELSE /\ Become(t)
           /\ UNCHANGED <<copyState, strengthInput, advancedAnalysis, rng>>

\* removeFromHistory without the call of savePasswordHistory
RemoveFromHistory_unsaved(index) ==
  /\ passwordHistory' = splice(passwordHistory, index)
  /\ toast' = [message |-> "Password removed from history", type |-> "info"]
  /\ UNCHANGED <<copyState, options, generatedPassword, localStorage,
                 strengthMeter, strengthInput, advancedAnalysis, created,
                 rng>>

\* a Remove button of the rendered history
RemoveFromHistory(index) ==
  /\ passwordHistory' = splice(passwordHistory, index)
  /\ localStorage' = savePasswordHistory(passwordHistory')
  /\ toast' = [message |-> "Password removed from history", type |-> "info"]
  /\ UNCHANGED <<copyState, options, generatedPassword, strengthMeter, strengthInput,
                 advancedAnalysis, created, rng>>

\* the Clear History button; `confirmed` is the answer to confirm()
ClearPasswordHistory(confirmed) ==
  IF Len(passwordHistory) = 0
  THEN /\ toast' = [message |-> "History is already empty", type |-> "info"]
       /\ UNCHANGED <<copyState, options, generatedPassword, passwordHistory,
                      localStorage, strengthMeter, strengthInput,
                      advancedAnalysis, created, rng>>
  ELSE IF confirmed
  THEN /\ passwordHistory' = <<>>
       /\ localStorage' = savePasswordHistory(passwordHistory')
       /\ toast' = [message |-> "Password history cleared",
                    type |-> "success"]
       /\ UNCHANGED <<copyState, options, generatedPassword, strengthMeter,
                      strengthInput, advancedAnalysis, created, rng>>
  ELSE UNCHANGED vars

Next ==
  \/ ClickGenerate
  \/ \E id \in AppCheckboxes : ChangeCheckbox(id)
  \/ \E index \in 0..(Len(passwordHistory) - 1) : RemoveFromHistory(index)
  \/ \E confirmed \in BOOLEAN : ClearPasswordHistory(confirmed)

Spec == Init /\ [][Next]_vars

\* ------------------------------------------------------------------------
\* SpecHistory: the page constructed over a stored history
\* ------------------------------------------------------------------------

\* the item 'passwordHistory' found at construction: none, or the history
\* an earlier session saved, which holds a password made of symbols and
\* the password the first generation is going to make
StoredItems ==
  {NoItem, savePasswordHistory(<<<<",", "]">>, <<"A">>>>)}

\* after `new PasswordGenerator()`: the history was loaded and init() has
\* called generatePassword
InitHistory ==
  \E o \in AppOptionSets :
    \E saved \in StoredItems :
      LET t == generatePassword(LoadedFrom(o, saved),
                                sourceWords(0, wordsNeeded(o)))
      IN  /\ options = t.options
          /\ generatedPassword = t.generatedPassword
          /\ passwordHistory = t.passwordHistory
          /\ localStorage = t.localStorage
          /\ toast = t.toast
          /\ strengthMeter = t.strengthMeter
          /\ created = t.created
          /\ rng = wordsNeeded(o)
          /\ strengthInput = <<>>
          /\ advancedAnalysis = NotAnalysed
          /\ NothingCopied

SpecHistory == InitHistory /\ [][Next]_vars

\* ------------------------------------------------------------------------
\* SpecAnalyze: the strength checker input and the extended analysis
\* ------------------------------------------------------------------------

\* longest text entered into the strength input
MaxInputLength == 17

\* the pieces of text entered (typed or pasted) at the end of the input
InputBlocks ==
  {<<"a","c","e","g">>, <<"B","D","F","H">>, <<"1","3","5","7">>,
   <<"!","@","#","$">>, <<"a","b","c">>}

\* the texts pasted over the whole content of the input
PastedTexts ==
  {<<"p","a","s","s","w","o","r","d">>,
   <<"T","r","0","u","b","4","d","o","r","&","3">>,
   <<"a","b","c","1","2","3">>,
   <<"x","q","z","j","k">>,
   <<"1","a","a","a">>,
   <<"Z","y","X","9">>,
   <<"2","0","1","2","3","4","5">>}

\* an 'input' event of the strength input after `block` was appended
InputStrength(block) ==
  /\ Len(strengthInput) + Len(block) <= MaxInputLength
  /\ strengthInput' = strengthInput \o block
  /\ strengthMeter' = checkPasswordStrength(strengthMeter, strengthInput')
  /\ UNCHANGED <<copyState, options, generatedPassword, passwordHistory, localStorage,
                 toast, advancedAnalysis, created, rng>>

\* an 'input' event after the whole text was deleted
ClearStrengthInput ==
  /\ strengthInput # <<>>
  /\ strengthInput' = <<>>
  /\ strengthMeter' = checkPasswordStrength(strengthMeter, strengthInput')
  /\ UNCHANGED <<copyState, options, generatedPassword, passwordHistory, localStorage,
                 toast, advancedAnalysis, created, rng>>

\* an 'input' event after `text` replaced the whole content
PasteStrength(text) ==
  /\ Len(text) <= MaxInputLength
  /\ strengthInput' = text
  /\ strengthMeter' = checkPasswordStrength(strengthMeter, strengthInput')
  /\ UNCHANGED <<copyState, options, generatedPassword, passwordHistory, localStorage,
                 toast, advancedAnalysis, created, rng>>

\* performAdvancedAnalysis with a report that depends on the call before:
\* a lowercase test that fails right after a call in which it succeeded
AdvancedAnalysis_carryOver ==
  /\ advancedAnalysis' =
       [called |-> TRUE, password |-> strengthInput,
        value |->
          IF advancedAnalysis.called /\ advancedAnalysis.value.hasLowercase
          THEN [performAdvancedAnalysis(strengthInput)
                  EXCEPT !.hasLowercase = FALSE]
          ELSE performAdvancedAnalysis(strengthInput)]
  /\ UNCHANGED <<copyState, options, generatedPassword, passwordHistory, localStorage,
                 toast, strengthMeter, strengthInput, created, rng>>

\* a call of performAdvancedAnalysis on the text of the strength input
AdvancedAnalysis ==
  /\ advancedAnalysis' =
       [called |-> TRUE, password |-> strengthInput,
        value |-> performAdvancedAnalysis(strengthInput)]
  /\ UNCHANGED <<copyState, options, generatedPassword, passwordHistory, localStorage,
                 toast, strengthMeter, strengthInput, created, rng>>

\* performAdvancedAnalysis changes nothing the input handler reads, so the
\* behaviours that call it last stand for every interleaving
NextAnalyze ==
  \/ \E block \in InputBlocks :
       ~advancedAnalysis.called /\ InputStrength(block)
  \/ ~advancedAnalysis.called /\ ClearStrengthInput
  \/ \E text \in PastedTexts :
       ~advancedAnalysis.called /\ PasteStrength(text)
  \/ ~advancedAnalysis.called /\ AdvancedAnalysis

SpecAnalyze == Init /\ [][NextAnalyze]_vars

\* ------------------------------------------------------------------------
\* SpecSession: analyses mixed with generation and history operations
\* ------------------------------------------------------------------------

NextSession ==
  \/ ClickGenerate
  \/ \E confirmed \in BOOLEAN : ClearPasswordHistory(confirmed)
  \/ \E text \in PastedTexts : PasteStrength(text)
  \/ ClearStrengthInput
  \/ AdvancedAnalysis

SpecSession == Init /\ [][NextSession]_vars

\* ------------------------------------------------------------------------
\* SpecCopy: generation, the multiple-passwords modal and the copy actions
\* ------------------------------------------------------------------------

\* navigator.clipboard.writeText resolves; it rejects and
\* document.execCommand('copy') copies; it rejects and execCommand throws
CopyOutcomes == {"writeText", "execCommand", "failed"}

\* the clipboard and the toast after an attempt to copy `text`: writeText,
\* then fallbackCopyToClipboard when it rejects
copyText(text, outcome, copiedMessage) ==
  /\ clipboard' = IF outcome = "failed" THEN clipboard ELSE text
  /\ toast' =
       CASE outcome = "writeText" ->
              [message |-> copiedMessage, type |-> "success"]
         [] outcome = "execCommand" ->
              [message |-> "Password copied to clipboard!",
               type |-> "success"]
         [] outcome = "failed" ->
              [message |-> "Failed to copy password!", type |-> "error"]

\* the Copy button: `() => this.copyToClipboard()` runs the own property
\* of the object when copyPassword has installed one, else the method
ClickCopy(outcome) ==
  /\ IF copyToClipboard.own
     THEN copyText(copyToClipboard.password, outcome, "Password copied!")
     ELSE IF generatedPassword = <<>>
     THEN /\ toast' = [message |-> "No password to copy!", type |-> "error"]
          /\ clipboard' = clipboard
     ELSE copyText(generatedPassword, outcome,
                   "Password copied to clipboard!")
  /\ UNCHANGED <<options, generatedPassword, passwordHistory, localStorage,
                 strengthMeter, strengthInput, advancedAnalysis, created,
                 rng, copyToClipboard, modalPasswords>>

\* number of passwords generateMultiplePasswords makes (its default count)
count == 5

\* the i-th password pushed by the loop of generateMultiplePasswords
pushed(i) ==
  createPassword(options,
                 sourceWords(rng + (i - 1) * DrawCount(options),
                             DrawCount(options)))

\* Alt+G: generateMultiplePasswords and the modal it shows
GenerateMultiplePasswords ==
  IF ~validateOptions(options)
  THEN /\ toast' = NoClassToast
       /\ UNCHANGED <<copyState, options, generatedPassword, passwordHistory,
                      localStorage, strengthMeter, strengthInput,
                      advancedAnalysis, created, rng>>
  ELSE /\ rng + count * DrawCount(options) <= MaxDraws
       /\ modalPasswords' = modalPasswords \cup {pushed(i) : i \in 1..count}
       /\ created' = [called |-> TRUE, value |-> pushed(count)]
       /\ rng' = rng + count * DrawCount(options)
       /\ UNCHANGED <<options, generatedPassword, passwordHistory,
                      localStorage, toast, strengthMeter, strengthInput,
                      advancedAnalysis, clipboard, copyToClipboard>>

\* a Copy button of a modal: copyPassword(password) assigns
\* this.copyToClipboard a function that closes over password and calls it
CopyPassword(password, outcome) ==
  /\ copyToClipboard' = [own |-> TRUE, password |-> password]
  /\ copyText(password, outcome, "Password copied!")
  /\ UNCHANGED <<options, generatedPassword, passwordHistory, localStorage,
                 strengthMeter, strengthInput, advancedAnalysis, created,
                 rng, modalPasswords>>

NextCopy ==
  \/ ClickGenerate
  \/ \E outcome \in CopyOutcomes : ClickCopy(outcome)
  \/ GenerateMultiplePasswords
  \/ \E password \in modalPasswords :
       \E outcome \in CopyOutcomes : CopyPassword(password, outcome)

SpecCopy == Init /\ [][NextCopy]_vars

\* ------------------------------------------------------------------------
\* Properties of createPassword (checked under SpecCreate)
\* ------------------------------------------------------------------------

\* number of include flags that are true
SelectedCount(o) ==
  (IF o.includeUppercase THEN 1 ELSE 0) + (IF o.includeLowercase THEN 1 ELSE 0)
  + (IF o.includeNumbers THEN 1 ELSE 0) + (IF o.includeSymbols THEN 1 ELSE 0)

Similar == Range(charSets.similar)

Ambiguous == Range(charSets.ambiguous)

\* the characters of one class that the option set o admits
UpperSet(o) ==
  {c \in Range(charSets.uppercase) : o.excludeSimilar => c \notin Similar}

LowerSet(o) ==
  {c \in Range(charSets.lowercase) : o.excludeSimilar => c \notin Similar}

NumberSet(o) ==
  {c \in Range(charSets.numbers) : o.excludeSimilar => c \notin Similar}

SymbolSet(o) ==
  {c \in Range(charSets.symbols) : o.excludeAmbiguous => c \notin Ambiguous}

AllowedChars(o) ==
  (IF o.includeUppercase THEN UpperSet(o) ELSE {})
  \cup (IF o.includeLowercase THEN LowerSet(o) ELSE {})
  \cup (IF o.includeNumbers THEN NumberSet(o) ELSE {})
  \cup (IF o.includeSymbols THEN SymbolSet(o) ELSE {})

Contains(password, set) == \E i \in 1..Len(password) : password[i] \in set

\* C1: for a valid option set whose length is at least the number of
\* selected classes, whatever the random source delivers, the password
\* createPassword returns has exactly options.length characters.
C1_LengthExact ==
  (created.called /\ options.length >= SelectedCount(options))
    => Len(created.value) = options.length

C1_Witness ==
  /\ created.called
  /\ SelectedCount(options) >= 2
  /\ options.length > SelectedCount(options)
  /\ Len(created.value) = options.length

\* C2: the returned password holds at least one character of every
\* selected class (as filtered), so the shuffle loses none of the
\* guaranteed characters.
C2_EachSelectedClass ==
  created.called =>
    /\ options.includeUppercase => Contains(created.value, UpperSet(options))
    /\ options.includeLowercase => Contains(created.value, LowerSet(options))
    /\ options.includeNumbers => Contains(created.value, NumberSet(options))
    /\ options.includeSymbols => Contains(created.value, SymbolSet(options))

C2_Witness ==
  /\ created.called
  /\ SelectedCount(options) = 3
  /\ options.length = 3
  /\ options.includeSymbols /\ options.includeNumbers
  /\ created.value[1] \in SymbolSet(options)
  /\ created.value[3] \in NumberSet(options)

\* C3: when length is smaller than the number of selected classes, only
\* `length` guaranteed characters are kept, so the result has exactly
\* `length` characters.
C3_TruncatedToLength ==
  (created.called /\ options.length < SelectedCount(options))
    => Len(created.value) = options.length

\* C5: with excludeSimilar set, no character of "0Oo1lI" occurs in the
\* returned password, whichever classes are selected.
C5_NoSimilar ==
  (created.called /\ options.excludeSimilar)
    => \A i \in 1..Len(created.value) : created.value[i] \notin Similar

C5_Witness ==
  /\ created.called
  /\ options.excludeSimilar
  /\ options.includeUppercase /\ options.includeLowercase
  /\ options.includeNumbers
  /\ Len(created.value) >= 3

\* C6: every character of the returned password belongs to a selected
\* class as filtered: no character of an unselected class occurs, and with
\* excludeAmbiguous set no ambiguous character occurs.
C6_OnlySelectedChars ==
  created.called =>
    /\ \A i \in 1..Len(created.value) :
         created.value[i] \in AllowedChars(options)
    /\ options.excludeAmbiguous =>
         \A i \in 1..Len(created.value) : created.value[i] \notin Ambiguous

C6_Witness ==
  /\ created.called
  /\ options.excludeAmbiguous
  /\ options.includeSymbols /\ ~options.includeUppercase
  /\ Contains(created.value, SymbolSet(options))
  /\ Len(created.value) = MaxLength

\* ------------------------------------------------------------------------
\* Properties of the handlers (checked under Spec)
\* ------------------------------------------------------------------------

\* a step in which generatePassword ran: a click on Generate or Regenerate,
\* or the change of a checkbox while a password is displayed
GenerateCall ==
  \/ ClickGenerate
  \/ \E id \in AppCheckboxes : generatedPassword # <<>> /\ ChangeCheckbox(id)

\* C4: when no include flag is true, generatePassword is rejected with the
\* no-character-class error: no password is created and the displayed
\* password and the history stay as they were.
C4_RejectedUnchanged ==
  [][(GenerateCall /\ SelectedCount(options') = 0)
       => /\ toast' = NoClassToast
          /\ created' = created
          /\ generatedPassword' = generatedPassword
          /\ passwordHistory' = passwordHistory
          /\ localStorage' = localStorage]_vars

C4_Witness ==
  /\ SelectedCount(options) = 0
  /\ toast = NoClassToast
  /\ generatedPassword # <<>>
  /\ Len(passwordHistory) > 0

NoDuplicates(history) ==
  \A i, j \in 1..Len(history) : i # j => history[i] # history[j]

\* C7 as stated: the history has at most 10 entries, no duplicate, and holds
\* the most recently generated passwords newest first, so that right after
\* a generation its first entry is the password just generated.
C7_NewestFirst ==
  /\ Len(passwordHistory) <= 10
  /\ NoDuplicates(passwordHistory)
  /\ toast = GeneratedToast =>
       /\ Len(passwordHistory) > 0
       /\ passwordHistory[1] = generatedPassword

\* C7 as amended: the history has at most 10 entries and no duplicate; a
\* generated password that is not in the history is put in front and the
\* entries beyond the tenth are dropped; a generated password that is
\* already in the history leaves the history as it is.
C7_InsertionOrder ==
  /\ [](Len(passwordHistory) <= 10 /\ NoDuplicates(passwordHistory))
  /\ [][(GenerateCall /\ SelectedCount(options') > 0)
          => passwordHistory' =
               IF \E i \in 1..Len(passwordHistory) :
                    passwordHistory[i] = generatedPassword'
               THEN passwordHistory
               ELSE SubSeq(<<generatedPassword'>> \o passwordHistory,
                           1, Min(10, Len(passwordHistory) + 1))]_vars

C7_Witness ==
  /\ toast = GeneratedToast
  /\ Len(passwordHistory) >= 2
  /\ passwordHistory[1] # generatedPassword
  /\ passwordHistory[Len(passwordHistory)] = generatedPassword

\* ------------------------------------------------------------------------
\* Properties of the analysis (checked under SpecAnalyze)
\* ------------------------------------------------------------------------

ClaimRepeated(p) == \E i, j \in 1..Len(p) : i < j /\ p[i] = p[j]

ClaimSequential(p) ==
  \E k \in 1..(Len(p) - 2) :
    LET window == toLowerCase(SubSeq(p, k, k + 2))
    IN  window \in subseqs \/ reverse(window) \in subseqs

ClaimAlphabet(p) ==
  (IF \E i \in 1..Len(p) : p[i] \in UpperLetters THEN 26 ELSE 0)
  + (IF \E i \in 1..Len(p) : p[i] \in LowerLetters THEN 26 ELSE 0)
  + (IF \E i \in 1..Len(p) : p[i] \in Digits THEN 10 ELSE 0)
  + (IF \E i \in 1..Len(p) :
          p[i] \notin UpperLetters \cup LowerLetters \cup Digits
     THEN 32 ELSE 0)

\* length * log2(alphabet) > bits, for a non-empty password
ClaimEntropyAbove(p, bits) ==
  Len(p) * log2Micro(ClaimAlphabet(p)) > bits * 1000000

ClaimRawScore(p) ==
    (IF Len(p) >= 8 THEN 25 ELSE 0)
  + (IF Len(p) >= 12 THEN 15 ELSE 0)
  + (IF Len(p) >= 16 THEN 10 ELSE 0)
  + (IF \E i \in 1..Len(p) : p[i] \in UpperLetters THEN 10 ELSE 0)
  + (IF \E i \in 1..Len(p) : p[i] \in LowerLetters THEN 10 ELSE 0)
  + (IF \E i \in 1..Len(p) : p[i] \in Digits THEN 10 ELSE 0)
  + (IF \E i \in 1..Len(p) :
          p[i] \notin UpperLetters \cup LowerLetters \cup Digits
     THEN 15 ELSE 0)
  + (IF ClaimEntropyAbove(p, 40) THEN 10 ELSE 0)
  + (IF ClaimEntropyAbove(p, 60) THEN 5 ELSE 0)
  - (IF ClaimRepeated(p) THEN 10 ELSE 0)
  - (IF ClaimSequential(p) THEN 15 ELSE 0)
  - (IF Len(p) < 8 THEN 20 ELSE 0)

ClaimScore(p) ==
  IF ClaimRawScore(p) < 0 THEN 0
  ELSE IF ClaimRawScore(p) > 100 THEN 100
  ELSE ClaimRawScore(p)

\* C8: for a non-empty password the score is an integer of 0..100, the
\* clamp of the sum of the length, class and entropy bonuses minus the
\* repeated, sequential and short-length penalties.
C8_ScoreFormula ==
  /\ strengthInput # <<>> =>
       /\ strengthMeter.score = <<ClaimScore(strengthInput), "/100">>
       /\ strengthMeter.score[1] \in 0..100
  /\ (advancedAnalysis.called /\ advancedAnalysis.password # <<>>) =>
       /\ advancedAnalysis.value.score = ClaimScore(advancedAnalysis.password)
       /\ advancedAnalysis.value.score \in 0..100

C8_Witness ==
  /\ strengthInput # <<>>
  /\ ClaimRawScore(strengthInput) > 100
  /\ strengthMeter.score = <<100, "/100">>
  /\ advancedAnalysis.called
  /\ advancedAnalysis.password = strengthInput

ClaimLevel(score) ==
  CASE score >= 90 -> "Excellent"
    [] score >= 75 /\ score < 90 -> "Strong"
    [] score >= 60 /\ score < 75 -> "Good"
    [] score >= 40 /\ score < 60 -> "Fair"
    [] score >= 20 /\ score < 40 -> "Weak"
    [] score < 20 -> "Very Weak"

\* C9: the level of every report is the one its score selects, the highest
\* matching threshold winning: 90 Excellent, 75 Strong, 60 Good, 40 Fair,
\* 20 Weak, otherwise Very Weak.
C9_LevelThresholds ==
  /\ strengthMeter.score # <<>> =>
       strengthMeter.label = ClaimLevel(strengthMeter.score[1])
  /\ advancedAnalysis.called =>
       advancedAnalysis.value.level = ClaimLevel(advancedAnalysis.value.score)

C9_Witness ==
  /\ strengthInput # <<>>
  /\ strengthMeter.score = <<75, "/100">>
  /\ strengthMeter.label = "Strong"

\* the meter as resetStrengthMeter leaves it: no score, no suggestions
NeutralMeter(meter) ==
  /\ meter.label = "Enter a password to check"
  /\ meter.score = <<>>
  /\ meter.width = 0
  /\ meter.suggestionsDisplay = "none"

\* C10: for the empty string the analyzer does not fail and does not run
\* the scoring path; it yields the neutral state without a score and
\* without suggestions, in the basic check and in the extended analysis.
C10_EmptyIsNeutral ==
  /\ [][(strengthInput # <<>> /\ strengthInput' = <<>>)
          => NeutralMeter(strengthMeter')]_vars
  /\ []((advancedAnalysis.called /\ advancedAnalysis.password = <<>>)
          => /\ "score" \notin DOMAIN advancedAnalysis.value
             /\ "level" \notin DOMAIN advancedAnalysis.value)

\* the reference sequences of the sequential-run check
ReferenceSequences ==
  <<<<"0","1","2","3","4","5","6","7","8","9">>,
    <<"a","b","c","d","e","f","g","h","i","j","k","l","m",
      "n","o","p","q","r","s","t","u","v","w","x","y","z">>,
    <<"q","w","e","r","t","y","u","i","o","p">>,
    <<"a","s","d","f","g","h","j","k","l">>,
    <<"z","x","c","v","b","n","m">>>>

\* the lower-case form of one character, read off the two alphabets
ClaimLower(c) ==
  IF \E n \in 1..26 : charSets.uppercase[n] = c
  THEN charSets.lowercase[CHOOSE n \in 1..26 : charSets.uppercase[n] = c]
  ELSE c

\* three characters of p starting at k equal, read forwards or backwards,
\* three consecutive characters of a reference sequence
ClaimWindowAt(p, k) ==
  \E r \in 1..Len(ReferenceSequences) :
    \E j \in 1..(Len(ReferenceSequences[r]) - 2) :
      LET ref == ReferenceSequences[r]
      IN  \/ \A d \in 0..2 : ClaimLower(p[k + d]) = ref[j + d]
          \/ \A d \in 0..2 : ClaimLower(p[k + 2 - d]) = ref[j + d]

ClaimSequentialRun(p) == \E k \in 1..(Len(p) - 2) : ClaimWindowAt(p, k)

\* C11: the sequential-run flag of a report is true exactly when the
\* lower-cased password contains, forwards or reversed, a 3-character window
\* of one of the five reference sequences; it is true for "abc123" and
\* false for "xqzjk".
C11_SequentialRun ==
  advancedAnalysis.called =>
    /\ advancedAnalysis.value.hasSequential
         <=> ClaimSequentialRun(advancedAnalysis.password)
    /\ advancedAnalysis.password = <<"a","b","c","1","2","3">>
         => advancedAnalysis.value.hasSequential
    /\ advancedAnalysis.password = <<"x","q","z","j","k">>
         => ~advancedAnalysis.value.hasSequential

C11_Witness ==
  /\ advancedAnalysis.called
  /\ advancedAnalysis.password = <<"a","b","c","1","2","3">>
  /\ advancedAnalysis.value.hasSequential
  /\ strengthMeter.suggestionsList[Len(strengthMeter.suggestionsList)]
       = "Avoid sequential characters"

\* the features held fixed when two passwords are compared by length: the
\* classes present and the repeated-character and sequential-run flags
ClaimComposition(p) ==
  [upper      |-> \E i \in 1..Len(p) : p[i] \in UpperLetters,
   lower      |-> \E i \in 1..Len(p) : p[i] \in LowerLetters,
   number     |-> \E i \in 1..Len(p) : p[i] \in Digits,
   symbol     |-> \E i \in 1..Len(p) :
                    p[i] \notin UpperLetters \cup LowerLetters \cup Digits,
   repeated   |-> ClaimRepeated(p),
   sequential |-> ClaimSequentialRun(p)]

\* C12: when the text of the strength input is replaced by a text at least
\* as long with the same classes present and the same repeated-character
\* and sequential-run flags, the score shown does not go down.
C12_MonotoneInLength ==
  [][(/\ strengthInput # <<>>
      /\ strengthInput' # <<>>
      /\ Len(strengthInput') >= Len(strengthInput)
      /\ ClaimComposition(strengthInput') = ClaimComposition(strengthInput))
        => strengthMeter'.width >= strengthMeter.width]_vars

\* a text whose last block was typed after a text of the same composition
\* and whose score is strictly higher than the score of that shorter text
C12_Witness ==
  \E block \in InputBlocks :
    LET n      == Len(strengthInput) - Len(block)
        before == SubSeq(strengthInput, 1, n)
    IN  /\ n > 0
        /\ SubSeq(strengthInput, n + 1, Len(strengthInput)) = block
        /\ ClaimComposition(before) = ClaimComposition(strengthInput)
        /\ strengthMeter.width > ClaimScore(before)
        /\ strengthMeter.score = <<strengthMeter.width, "/100">>

\* the eight suggestions in their fixed order
ClaimSuggestionOrder ==
  <<"Use at least 8 characters",
    "Use 12+ characters for better security",
    "Add uppercase letters",
    "Add lowercase letters",
    "Add numbers",
    "Add special characters",
    "Avoid repeated characters",
    "Avoid sequential characters">>

\* the condition under which the n-th suggestion is due for password p
ClaimSuggestionDue(n, p) ==
  CASE n = 1 -> Len(p) < 8
    [] n = 2 -> Len(p) < 12
    [] n = 3 -> \A i \in 1..Len(p) : p[i] \notin UpperLetters
    [] n = 4 -> \A i \in 1..Len(p) : p[i] \notin LowerLetters
    [] n = 5 -> \A i \in 1..Len(p) : p[i] \notin Digits
    [] n = 6 -> \A i \in 1..Len(p) :
                  p[i] \in UpperLetters \cup LowerLetters \cup Digits
    [] n = 7 -> ClaimRepeated(p)
    [] n = 8 -> ClaimSequentialRun(p)

\* list is the increasing enumeration of the suggestions due for p
ClaimIsSuggestionList(list, p) ==
  LET due == {n \in 1..8 : ClaimSuggestionDue(n, p)}
  IN  /\ Len(list) = Cardinality(due)
      /\ \A k \in 1..Len(list) :
            \E n \in due :
              /\ list[k] = ClaimSuggestionOrder[n]
              /\ Cardinality({m \in due : m < n}) = k - 1

\* C13: the suggestions shown for a non-empty password are the ones whose
\* condition holds, in the order length<8, length<12, missing uppercase,
\* lowercase, numbers, symbols, repeated characters, sequential characters;
\* nothing is shown when no condition holds.
C13_SuggestionOrder ==
  strengthInput # <<>> =>
    IF \E n \in 1..8 : ClaimSuggestionDue(n, strengthInput)
    THEN /\ strengthMeter.suggestionsDisplay = "block"
         /\ ClaimIsSuggestionList(strengthMeter.suggestionsList,
                                  strengthInput)
    ELSE strengthMeter.suggestionsDisplay = "none"

\* a password shorter than 8 that gets both length suggestions first and
\* the sequential-run suggestion last
C13_Witness ==
  /\ strengthInput # <<>>
  /\ Len(strengthInput) < 8
  /\ strengthMeter.suggestionsDisplay = "block"
  /\ Len(strengthMeter.suggestionsList) >= 3
  /\ strengthMeter.suggestionsList[1] = "Use at least 8 characters"
  /\ strengthMeter.suggestionsList[2]
       = "Use 12+ characters for better security"
  /\ strengthMeter.suggestionsList[Len(strengthMeter.suggestionsList)]
       = "Avoid sequential characters"

\* the L characters of p at position i (counted from 1) occur again at a
\* later position j, after the end of the first occurrence
ClaimRecursLater(p, L, i) ==
  \E j \in (i + L)..(Len(p) - L + 1) :
    \A d \in 0..(L - 1) : p[i + d] = p[j + d]

ClaimRepeatedSubstring(p) ==
  \E L \in 2..(Len(p) \div 2) :
    \E i \in 1..(Len(p) - L + 1) : ClaimRecursLater(p, L, i)

\* C14: the repeated-substring flag of the extended analysis is true
\* exactly when for some length L with 2 <= L <= floor(len/2) and some
\* position i the substring of length L at i occurs again in the rest of
\* the password after it.
C14_RepeatedSubstring ==
  advancedAnalysis.called =>
    (advancedAnalysis.value.patterns.repeated
       <=> ClaimRepeatedSubstring(advancedAnalysis.password))

\* a text of four blocks whose first block comes back as the third
C14_Witness ==
  /\ advancedAnalysis.called
  /\ Len(advancedAnalysis.password) >= 11
  /\ SubSeq(advancedAnalysis.password, 1, 4)
       = SubSeq(advancedAnalysis.password, 8, 11)
  /\ advancedAnalysis.value.patterns.repeated
  /\ [type |-> "info", text |-> "Avoid repeated character patterns"]
       \in Range(advancedAnalysis.value.recommendations)

\* the seven recommendations in their fixed order, with their tags
ClaimRecommendationOrder ==
  <<[type |-> "critical", text |-> "Avoid common passwords"],
    [type |-> "critical", text |-> "This pattern appears in data breaches"],
    [type |-> "warning", text |-> "Avoid keyboard patterns"],
    [type |-> "warning", text |-> "Avoid dictionary words"],
    [type |-> "warning", text |-> "Avoid personal information like dates"],
    [type |-> "info", text |-> "Avoid repeated character patterns"],
    [type |-> "info", text |-> "Increase password complexity"]>>

\* length * log2(alphabet) < bits, for a non-empty password
ClaimEntropyBelow(p, bits) ==
  Len(p) * log2Micro(ClaimAlphabet(p)) < bits * 1000000

\* the n-th detector fired in the report for password p
ClaimDetectorFired(n, report, p) ==
  CASE n = 1 -> report.isCommon
    [] n = 2 -> report.isLeaked
    [] n = 3 -> report.patterns.keyboard
    [] n = 4 -> report.patterns.dictionary
    [] n = 5 -> report.patterns.personal
    [] n = 6 -> report.patterns.repeated
    [] n = 7 -> ClaimEntropyBelow(p, 50)

\* C15: for a non-empty password the extended recommendations are the
\* entries whose detector fired, in the order common, leaked, keyboard,
\* dictionary, personal, repeated, low entropy (entropy < 50 bits); common
\* and leaked are tagged critical, keyboard, dictionary and personal
\* warning, repeated and low entropy info.
C15_RecommendationOrder ==
  (advancedAnalysis.called /\ advancedAnalysis.password # <<>>) =>
    LET report == advancedAnalysis.value
        list   == report.recommendations
        fired  == {n \in 1..7 :
                     ClaimDetectorFired(n, report, advancedAnalysis.password)}
    IN  /\ Len(list) = Cardinality(fired)
        /\ \A k \in 1..Len(list) :
              \E n \in fired :
                /\ list[k] = ClaimRecommendationOrder[n]
                /\ Cardinality({m \in fired : m < n}) = k - 1

\* "password": common, leaked, dictionary and low entropy, in this order
C15_Witness ==
  /\ advancedAnalysis.called
  /\ advancedAnalysis.password = <<"p","a","s","s","w","o","r","d">>
  /\ Len(advancedAnalysis.value.recommendations) = 4
  /\ advancedAnalysis.value.recommendations[2]
       = [type |-> "critical", text |-> "This pattern appears in data breaches"]
  /\ advancedAnalysis.value.recommendations[4]
       = [type |-> "info", text |-> "Increase password complexity"]

ClaimPassword == <<"p","a","s","s","w","o","r","d">>

ClaimTroubador == <<"T","r","0","u","b","4","d","o","r","&","3">>

\* C16: the score shown for "Tr0ub4dor&3" is strictly higher than the
\* score shown for "password", whichever of the two is checked first.
C16_TroubadorBeatsPassword ==
  /\ [][(strengthInput = ClaimPassword /\ strengthInput' = ClaimTroubador)
          => strengthMeter'.score[1] > strengthMeter.score[1]]_vars
  /\ [][(strengthInput = ClaimTroubador /\ strengthInput' = ClaimPassword)
          => strengthMeter'.score[1] < strengthMeter.score[1]]_vars
  /\ []((advancedAnalysis.called
          /\ advancedAnalysis.password = ClaimTroubador)
          => advancedAnalysis.value.score > ClaimScore(ClaimPassword))

\* "Tr0ub4dor&3" checked and analysed: all four classes, both entropy
\* bonuses, a repeated character, a score above the one of "password"
C16_Witness ==
  /\ strengthInput = ClaimTroubador
  /\ advancedAnalysis.called
  /\ advancedAnalysis.password = ClaimTroubador
  /\ advancedAnalysis.value.hasRepeated
  /\ strengthMeter.score[1] = advancedAnalysis.value.score
  /\ strengthMeter.score[1] > ClaimScore(ClaimPassword)

\* C17: the analysis of "password" reports lowercase present, uppercase,
\* numbers and symbols absent, a dictionary-word match and a common
\* password; the basic check marks the lowercase criterion and none of the
\* uppercase, number and symbol criteria.
C17_PasswordReport ==
  /\ (advancedAnalysis.called /\ advancedAnalysis.password = ClaimPassword)
       => /\ advancedAnalysis.value.hasLowercase
          /\ ~advancedAnalysis.value.hasUppercase
          /\ ~advancedAnalysis.value.hasNumbers
          /\ ~advancedAnalysis.value.hasSymbols
          /\ advancedAnalysis.value.patterns.dictionary
          /\ advancedAnalysis.value.isCommon
  /\ strengthInput = ClaimPassword
       => strengthMeter.criteria \cap {"uppercaseCriterion",
                                       "lowercaseCriterion",
                                       "numberCriterion", "symbolCriterion"}
            = {"lowercaseCriterion"}

C17_Witness ==
  /\ advancedAnalysis.called
  /\ advancedAnalysis.password = ClaimPassword
  /\ strengthInput = ClaimPassword
  /\ advancedAnalysis.value.isCommon
  /\ advancedAnalysis.value.patterns.dictionary
  /\ "lowercaseCriterion" \in strengthMeter.criteria

\* ------------------------------------------------------------------------
\* Purity of the analysis (checked under SpecSession)
\* ------------------------------------------------------------------------

\* a step that is an 'input' event of the strength input and nothing else
InputEvent ==
  /\ strengthMeter' # strengthMeter \/ strengthInput' # strengthInput
  /\ UNCHANGED <<copyState, options, generatedPassword, passwordHistory, localStorage,
                 toast, advancedAnalysis, created, rng>>

C19_CopyCopiesDisplayed ==
  [][\A outcome \in {"writeText", "execCommand"} :
       (generatedPassword # <<>> /\ ClickCopy(outcome))
         => clipboard' = generatedPassword]_vars

\* ------------------------------------------------------------------------
\* Filtered classes (checked under SpecCreate)
\* ------------------------------------------------------------------------

\* C20: for every combination of the include and exclude flags each
\* selected class keeps at least one character after filtering, so no draw
\* of createPassword indexes an empty string: every draw yields a character
\* and the password has one character per draw.
C20_FilteredClassesNonEmpty ==
  /\ \A k \in 1..Len(selectedClasses(options)) :
        Len(selectedClasses(options)[k]) > 0
  /\ options.includeUppercase => UpperSet(options) # {}
  /\ options.includeLowercase => LowerSet(options) # {}
  /\ options.includeNumbers => NumberSet(options) # {}
  /\ options.includeSymbols => SymbolSet(options) # {}
  /\ created.called =>
       Len(created.value)
         = SelectedCount(options)
           + Max(0, options.length - SelectedCount(options))

\* all four classes selected and both filters on
C20_Witness ==
  /\ options.includeUppercase /\ options.includeLowercase
  /\ options.includeNumbers /\ options.includeSymbols
  /\ options.excludeSimilar /\ options.excludeAmbiguous
  /\ created.called
  /\ Len(created.value) = 4
  /\ Len(numberChars(options)) = 8

\* ------------------------------------------------------------------------
\* Persistence of the history (checked under SpecHistory)
\* ------------------------------------------------------------------------

\* a step of one of the history operations: a generation that makes a
\* password, the removal of an entry, the clearing of the history
HistoryOperation ==
  \/ GenerateCall /\ SelectedCount(options') > 0
  \/ \E index \in 0..(Len(passwordHistory) - 1) : RemoveFromHistory(index)
  \/ \E confirmed \in BOOLEAN : ClearPasswordHistory(confirmed)

\* C21: after every history operation (a generated password added, an
\* entry removed, the history cleared) the history read back from local
\* storage is the history in memory, every write to storage succeeding.
C21_StorageMatchesMemory ==
  [][HistoryOperation
       => loadPasswordHistory(localStorage') = passwordHistory']_vars

\* an entry was removed from a history loaded from storage and extended by
\* later generations; the stored text reads back as the history in memory
C21_Witness ==
  /\ toast.message = "Password removed from history"
  /\ Len(passwordHistory) >= 3
  /\ <<",", "]">> \in Range(passwordHistory)
  /\ localStorage # NoItem
  /\ loadPasswordHistory(localStorage) = passwordHistory
  /\ passwordHistory[1] = generatedPassword

====
